---- MODULE Spec2Model ----
(***************************************************************************)
(* PathKit, CDeps.cpp: PATPathComponents splits a path into its segments   *)
(* and PATFreePathComponents releases what the split allocated.            *)
(*                                                                         *)
(* A string is a sequence of one-character strings.  The code indexes      *)
(* characters from 0; At(p, i) is the code's p[i].  The heap is a map from *)
(* addresses to objects; an object is a vector<string> or an array of      *)
(* const char *, and an address that holds none is unused or freed (no     *)
(* address is given out twice, so a stale pointer stays recognisable).     *)
(*   A const char * taken with c_str() names the vector,   *)
(* the element and the vector's generation at the time it was taken: a     *)
(* push_back may move the elements, so it starts a new generation.         *)
(***************************************************************************)
EXTENDS Integers, Sequences, FiniteSets

\* ---------------------------------------------------------------- bounds
\* The most characters of string data the free store holds: a call is made only
\* with a path that fits, so that no allocation fails.
MaxTotal == 4
\* The longest run of '/' that an interior separator is resized to.
MaxRun == 3

\* ------------------------------------------------------------- constants
NULL == 0
Chars == {"/", "a", "b"}
\* The caller's variables that hold a result of PATPathComponents.
Slot == {"r1", "r2"}
\* Each call allocates at most two objects: the vector and the array.
Addr == 1..(2 * Cardinality(Slot))

VARIABLES
    pc,          \* position in PATPathComponents, or "idle" (in the caller)
    path,        \* argument path
    temp,        \* the caller's cell that the argument temp points to (*temp)
    count,       \* the caller's cell that the argument count points to (*count)
    strings,     \* local strings (address of the vector)
    curPos,      \* local curPos
    endPos,      \* local endPos
    curEnd,      \* local curEnd of the last iteration
    components,  \* local components (address of the array)
    heap,        \* the free store
    heap0,       \* the free store when the running or last call was entered
    slots,       \* the results the caller holds
    cur,         \* the caller's variable of the running or last call
    last,        \* the last call that returned: "split", "free" or "none"
    iters,       \* outer-loop iterations the running call has begun
    ub           \* undefined behaviour has occurred

vars == <<pc, path, temp, count, strings, curPos, endPos, curEnd, components,
          heap, heap0, slots, cur, last, iters, ub>>

\* ------------------------------------------------------------- strings
RECURSIVE SeqsUpTo(_)
SeqsUpTo(n) ==
    IF n = 0 THEN {<<>>}
    ELSE LET S == SeqsUpTo(n - 1)
         IN S \cup {Append(s, c) : s \in {x \in S : Len(x) = n - 1}, c \in Chars}

Paths == SeqsUpTo(MaxTotal)

\* path[i], i counted from 0
At(p, i) == p[i + 1]

\* Fault: string(path + pos + 1, n - 1), the first character lost.
SubStrFromNext(p, pos, n) == SubSeq(p, pos + 2, pos + n)

\* string(path + pos, n)
SubStr(p, pos, n) == SubSeq(p, pos + 1, pos + n)

Root == <<"/">>

\* ---------------------------------------------------------------- heap
Unused == [kind |-> "unused", elems |-> <<>>, gen |-> 0]
Freed == [kind |-> "freed", elems |-> <<>>, gen |-> 0]

Live(h, a) == a \in Addr /\ h[a].kind \in {"vector", "array"}

\* operator new: the lowest address never given out
NewAddr(h) ==
    CHOOSE a \in Addr : h[a].kind = "unused" /\ \A b \in Addr : b < a => h[b].kind # "unused"

\* new vector<string>()
NewVector(h) == [h EXCEPT ![NewAddr(h)] = [kind |-> "vector", elems |-> <<>>, gen |-> 0]]

\* strings->push_back(s): the elements may move, which ends the generation
PushBack(h, v, s) ==
    [h EXCEPT ![v] = [kind |-> "vector", elems |-> Append(h[v].elems, s), gen |-> h[v].gen + 1]]

\* (*strings)[i].c_str(), i counted from 0
CStr(h, v, i) == [vec |-> v, idx |-> i + 1, gen |-> h[v].gen]

\* A const char * is valid while its vector is live and has not been changed.
ValidPtr(h, p) ==
    /\ Live(h, p.vec)
    /\ h[p.vec].kind = "vector"
    /\ h[p.vec].gen = p.gen
    /\ p.idx \in 1..Len(h[p.vec].elems)

\* the text a valid const char * points to
Deref(h, p) == h[p.vec].elems[p.idx]

RECURSIVE SumLen(_)
SumLen(ss) == IF ss = <<>> THEN 0 ELSE Len(Head(ss)) + SumLen(Tail(ss))

\* characters of string data in the live vectors
UsedChars(h) ==
    LET vs == {a \in Addr : h[a].kind = "vector"}
        RECURSIVE Sum(_)
        Sum(S) == IF S = {} THEN 0
                  ELSE LET a == CHOOSE x \in S : TRUE
                       IN SumLen(h[a].elems) + Sum(S \ {a})
    IN Sum(vs)

\* ------------------------------------------------- PATPathComponents, pure parts
\* Fault: lines 29-31 left out.
LeadingRootMissing(p) == <<>>

\* lines 29-31: what is pushed before the loop
LeadingRoot(p) == IF At(p, 0) = "/" THEN <<Root>> ELSE <<>>

\* lines 33-35: the position after the run of '/' at pos
RECURSIVE SkipSlashes(_, _, _)
SkipSlashes(p, pos, end) ==
    IF pos < end /\ At(p, pos) = "/" THEN SkipSlashes(p, pos + 1, end) ELSE pos

\* lines 39-42: the position after the run of non-'/' at pos
RECURSIVE ScanRun(_, _, _)
ScanRun(p, e, end) ==
    IF e < end /\ At(p, e) # "/" THEN ScanRun(p, e + 1, end) ELSE e

\* Fault: lines 36-38 left out, the scan goes on at the end of the path.
LoopBodyNoBreak(p, pos, end) ==
    LET q == SkipSlashes(p, pos, end)
        e == ScanRun(p, q, end)
    IN [brk |-> FALSE, curPos |-> e, curEnd |-> e, pushed |-> <<SubStr(p, q, e - q)>>]

\* Fault: line 43 takes the string from the start of the iteration, separators
\* included.
LoopBodyFromPos(p, pos, end) ==
    LET q == SkipSlashes(p, pos, end)
    IN IF q = end
       THEN [brk |-> TRUE, curPos |-> q, curEnd |-> q, pushed |-> <<>>]
       ELSE LET e == ScanRun(p, q, end)
            IN [brk |-> FALSE, curPos |-> e, curEnd |-> e,
                pushed |-> <<SubStr(p, pos, e - pos)>>]

\* Fault: line 45 left out, curPos stays at the start of the segment.
LoopBodyNoAdvance(p, pos, end) ==
    LET q == SkipSlashes(p, pos, end)
    IN IF q = end
       THEN [brk |-> TRUE, curPos |-> q, curEnd |-> q, pushed |-> <<>>]
       ELSE LET e == ScanRun(p, q, end)
            IN [brk |-> FALSE, curPos |-> q, curEnd |-> e,
                pushed |-> <<SubStr(p, q, e - q)>>]

\* lines 33-45: one iteration of the outer loop entered with curPos = pos
LoopBody(p, pos, end) ==
    LET q == SkipSlashes(p, pos, end)
    IN IF q = end
       THEN [brk |-> TRUE, curPos |-> q, curEnd |-> q, pushed |-> <<>>]
       ELSE LET e == ScanRun(p, q, end)
            IN [brk |-> FALSE, curPos |-> e, curEnd |-> e,
                pushed |-> <<SubStr(p, q, e - q)>>]

\* Fault: line 47 tests endPos > 0.
TrailingRootAnyLen(p, end) == IF end > 0 /\ At(p, end - 1) = "/" THEN <<Root>> ELSE <<>>

\* lines 47-49: what is pushed after the loop
TrailingRoot(p, end) == IF end > 1 /\ At(p, end - 1) = "/" THEN <<Root>> ELSE <<>>

\* lines 32-46: the strings the whole loop pushes, appended to acc
RECURSIVE SplitLoop(_, _, _, _)
SplitLoop(p, pos, end, acc) ==
    IF ~(pos < end) THEN acc
    ELSE LET r == LoopBody(p, pos, end)
         IN IF r.brk THEN acc ELSE SplitLoop(p, r.curPos, end, acc \o r.pushed)

\* lines 22-49: the contents of the vector when the array is made
SplitText(p) ==
    IF p = <<>> THEN <<>>
    ELSE SplitLoop(p, 0, Len(p), LeadingRoot(p)) \o TrailingRoot(p, Len(p))

\* ------------------------------------------------------------ the caller
\* The caller makes one call for each of its variables, in this order.
NoResult == [state |-> "none", path |-> <<>>, components |-> NULL, count |-> 0,
             temp |-> NULL, owned |-> {}]

Before(s) == IF s = "r2" THEN {"r1"} ELSE {}

\* What the caller's void *temp holds before a call: null, or a pointer the
\* caller was given by an earlier call.
TempInit(sl) == {NULL} \cup {sl[x].components : x \in Slot}
\* What the caller's size_t count holds before a call.
CountInit == {0, MaxTotal + 2}

Init ==
    /\ pc = "idle"
    /\ path = <<>>
    /\ temp = NULL
    /\ count = 0
    /\ strings = NULL
    /\ curPos = 0
    /\ endPos = 0
    /\ curEnd = 0
    /\ components = NULL
    /\ heap = [a \in Addr |-> Unused]
    /\ heap0 = [a \in Addr |-> Unused]
    /\ slots = [s \in Slot |-> NoResult]
    /\ cur = "r1"
    /\ last = "none"
    /\ iters = 0
    /\ ub = FALSE

\* The caller calls PATPathComponents(p, &count, &temp) for its variable s,
\* with a path p that fits the free store and t, c in its temp and count.
Call(s) ==
    /\ pc = "idle"
    /\ ~ub
    /\ slots[s].state = "none"
    /\ \A x \in Before(s) : slots[x].state # "none"
    /\ LET room == MaxTotal - UsedChars(heap)
       IN \E p \in {q \in Paths : Len(q) <= room}, t \in TempInit(slots), c \in CountInit :
             /\ path' = p
             /\ temp' = t
             /\ count' = c
    /\ pc' = "entry"
    /\ cur' = s
    /\ heap0' = heap
    /\ iters' = 0
    /\ UNCHANGED <<strings, curPos, endPos, curEnd, components, heap, slots, last, ub>>

\* The function returns ret to the caller, which keeps the result in cur.
ReturnTo(ret, n, h) ==
    /\ slots' = [slots EXCEPT ![cur] =
                    [state |-> "held", path |-> path, components |-> ret, count |-> n,
                     temp |-> temp,
                     owned |-> {a \in Addr : Live(h, a) /\ ~Live(heap0, a)}]]
    /\ last' = "split"
    /\ pc' = "idle"
    /\ count' = n
    /\ path' = <<>>
    /\ strings' = NULL
    /\ curPos' = 0
    /\ endPos' = 0
    /\ curEnd' = 0
    /\ components' = NULL
    /\ iters' = 0

\* Fault: the vector of line 26 is made before the test of line 22.
EmptyReturnAfterNew ==
    /\ pc = "entry"
    /\ path = <<>>
    /\ heap' = NewVector(heap)
    /\ ReturnTo(NULL, 0, heap')
    /\ UNCHANGED <<temp, heap0, cur, ub>>

\* lines 22-25
EmptyReturn ==
    /\ pc = "entry"
    /\ path = <<>>
    /\ ReturnTo(NULL, 0, heap)
    /\ UNCHANGED <<temp, heap, heap0, cur, ub>>

\* lines 26-31
Begin ==
    /\ pc = "entry"
    /\ path # <<>>
    /\ LET v == NewAddr(heap)
           h1 == NewVector(heap)
           lead == LeadingRoot(path)
       IN /\ strings' = v
          /\ heap' = IF lead = <<>> THEN h1 ELSE PushBack(h1, v, lead[1])
    /\ curPos' = 0
    /\ endPos' = Len(path)
    /\ pc' = "loop"
    /\ UNCHANGED <<path, temp, count, curEnd, components, heap0, slots, cur, last, iters, ub>>

\* lines 32-46: one iteration of the outer loop
LoopIter ==
    /\ pc = "loop"
    /\ curPos < endPos
    /\ LET r == LoopBody(path, curPos, endPos)
       IN /\ curPos' = r.curPos
          /\ curEnd' = r.curEnd
          /\ heap' = IF r.brk THEN heap ELSE PushBack(heap, strings, r.pushed[1])
          /\ pc' = IF r.brk THEN "tail" ELSE "loop"
    /\ iters' = iters + 1
    /\ UNCHANGED <<path, temp, count, strings, endPos, components, heap0, slots, cur, last, ub>>

\* line 32: the loop condition fails
LoopExit ==
    /\ pc = "loop"
    /\ ~(curPos < endPos)
    /\ pc' = "tail"
    /\ UNCHANGED <<path, temp, count, strings, curPos, endPos, curEnd, components,
                   heap, heap0, slots, cur, last, iters, ub>>

\* lines 47-49
PushTrailing ==
    /\ pc = "tail"
    /\ LET trail == TrailingRoot(path, endPos)
       IN heap' = IF trail = <<>> THEN heap ELSE PushBack(heap, strings, trail[1])
    /\ pc' = "array"
    /\ UNCHANGED <<path, temp, count, strings, curPos, endPos, curEnd, components,
                   heap0, slots, cur, last, iters, ub>>

\* lines 50-53
Materialize ==
    /\ pc = "array"
    /\ LET a == NewAddr(heap)
           n == Len(heap[strings].elems)
       IN /\ components' = a
          /\ heap' = [heap EXCEPT ![a] =
                        [kind |-> "array",
                         elems |-> [i \in 1..n |-> CStr(heap, strings, i - 1)],
                         gen |-> 0]]
    /\ pc' = "return"
    /\ UNCHANGED <<path, temp, count, strings, curPos, endPos, curEnd,
                   heap0, slots, cur, last, iters, ub>>

\* lines 54-55
Return ==
    /\ pc = "return"
    /\ ReturnTo(components, Len(heap[strings].elems), heap)
    /\ UNCHANGED <<temp, heap, heap0, cur, ub>>

\* ------------------------------------------------- PATFreePathComponents
\* line 16, delete components: the array was made by new[], so this delete is
\* undefined; it releases the array or it does not.
DeleteOutcome == {"released", "undefined"}

DeleteComponents(h, a, o) ==
    IF a = NULL THEN [heap |-> h, ub |-> FALSE]
    ELSE IF Live(h, a) /\ o = "released"
         THEN [heap |-> [h EXCEPT ![a] = Freed], ub |-> FALSE]
         ELSE [heap |-> h, ub |-> TRUE]

\* lines 17-18, delete (vector<string> *)temp
DeleteVector(h, a) ==
    IF a = NULL THEN [heap |-> h, ub |-> FALSE]
    ELSE IF Live(h, a) /\ h[a].kind = "vector"
         THEN [heap |-> [h EXCEPT ![a] = Freed], ub |-> FALSE]
         ELSE [heap |-> h, ub |-> TRUE]

\* lines 15-19
FreePathComponents(h, comps, tmp, o) ==
    LET d1 == DeleteComponents(h, comps, o)
    IN IF d1.ub THEN d1 ELSE DeleteVector(d1.heap, tmp)

\* The caller calls PATFreePathComponents(components, temp) with what the call
\* for s gave it.
Free(s, o) ==
    /\ pc = "idle"
    /\ ~ub
    /\ slots[s].state = "held"
    /\ LET d == FreePathComponents(heap, slots[s].components, slots[s].temp, o)
       IN /\ heap' = d.heap
          /\ ub' = d.ub
    /\ heap0' = heap
    /\ cur' = s
    /\ last' = "free"
    /\ slots' = [slots EXCEPT ![s].state = "released"]
    /\ UNCHANGED <<pc, path, temp, count, strings, curPos, endPos, curEnd,
                   components, iters>>

Step ==
    \/ EmptyReturn
    \/ Begin
    \/ LoopIter
    \/ LoopExit
    \/ PushTrailing
    \/ Materialize
    \/ Return

Next ==
    \/ \E s \in Slot : Call(s)
    \/ Step
    \/ \E s \in Slot, o \in DeleteOutcome : Free(s, o)

Spec == Init /\ [][Next]_vars

\* The function runs to completion once called.
FairSpec == Spec /\ WF_vars(Step)

\* ---------------------------------------------------------------- claims
\* the result of the call for cur, and the states right after a call returns
Res == slots[cur]
JustSplit == pc = "idle" /\ last = "split" /\ ~ub
JustFreed == pc = "idle" /\ last = "free"

\* the strings the caller reads through components[0 .. count - 1]
Segments(h, r) ==
    IF r.components = NULL THEN <<>>
    ELSE [i \in 1..r.count |-> Deref(h, h[r.components].elems[i])]

Returned == Segments(heap, Res)

\* the maximal runs of non-'/' characters of p, as (first, last) index pairs
IsRun(p, i, j) ==
    /\ \A k \in i..j : p[k] # "/"
    /\ (i = 1 \/ p[i - 1] = "/")
    /\ (j = Len(p) \/ p[j + 1] = "/")

RunsOf(p) == {r \in (1..Len(p)) \X (1..Len(p)) : r[1] <= r[2] /\ IsRun(p, r[1], r[2])}

\* the runs in left-to-right order
RunTexts(p) ==
    LET R == RunsOf(p)
        nth(k) == CHOOSE r \in R : Cardinality({q \in R : q[1] < r[1]}) = k - 1
    IN [k \in 1..Cardinality(R) |-> SubSeq(p, nth(k)[1], nth(k)[2])]

StartsWithSlash(p) == p # <<>> /\ p[1] = "/"
EndsWithSlash(p) == Len(p) > 1 /\ p[Len(p)] = "/"
OnlySlashes(p) == \A k \in 1..Len(p) : p[k] = "/"

ExpectedSegments(p) ==
    (IF StartsWithSlash(p) THEN <<Root>> ELSE <<>>)
        \o RunTexts(p)
        \o (IF EndsWithSlash(p) THEN <<Root>> ELSE <<>>)

\* C1: for every path the call returns the segment "/" if the path starts with
\* '/', then the maximal runs of non-'/' characters from left to right, then one
\* more "/" if the path is longer than 1 and ends with '/', and nothing else.
C1_ExactSegments == JustSplit => Returned = ExpectedSegments(Res.path)

C1_Witness ==
    /\ JustSplit
    /\ Res.path = <<"/", "a", "b", "/">>
    /\ Returned = <<Root, <<"a", "b">>, Root>>

\* C2: for every non-empty path, when the call returns, *temp is the vector
\* that holds the text the returned pointers point into.
C2_HandleSet ==
    (JustSplit /\ Res.path # <<>>) =>
        /\ Live(heap, Res.temp)
        /\ heap[Res.temp].kind = "vector"
        /\ \A i \in 1..Res.count : heap[Res.components].elems[i].vec = Res.temp

\* C3: for every non-empty path, after the split and one release with the
\* pointer and the handle the split produced, nothing the split allocated is
\* live and nothing else has been released.
C3_ReleaseExact ==
    (JustFreed /\ Res.path # <<>>) =>
        /\ ~ub
        /\ \A a \in Res.owned : ~Live(heap, a)
        /\ \A a \in Addr \ Res.owned : Live(heap0, a) => Live(heap, a)

\* C4: for every non-empty path the count written equals the number of entries
\* of the returned array, and every returned segment is a non-empty string.
C4_CountAndNonEmpty ==
    (JustSplit /\ Res.path # <<>>) =>
        /\ Res.count = Len(heap[Res.components].elems)
        /\ \A i \in 1..Len(heap[Res.components].elems) :
              /\ ValidPtr(heap, heap[Res.components].elems[i])
              /\ Deref(heap, heap[Res.components].elems[i]) # <<>>

C4_Witness ==
    /\ JustSplit
    /\ Res.path = <<"/", "/", "a", "/">>
    /\ Res.count = 3

\* C5: for the empty path the call returns a null pointer, sets count to 0 and
\* allocates nothing.
C5_EmptyPath ==
    (JustSplit /\ Res.path = <<>>) =>
        /\ Res.components = NULL
        /\ Res.count = 0
        /\ count = 0
        /\ Res.owned = {}
        /\ heap = heap0

C5_Witness ==
    /\ JustSplit
    /\ Res.path = <<>>
    /\ cur = "r2"
    /\ slots["r1"].state = "held"
    /\ slots["r1"].path # <<>>

\* C6: a segment "/" occurs only at index 0, exactly when the path starts with
\* '/', and at the last index, distinct from the leading one, exactly when the
\* path is longer than 1 and ends with '/'; so at most twice.
C6_RootMarkers ==
    JustSplit =>
        LET p == Res.path
            segs == Returned
            roots == {i \in 1..Len(segs) : segs[i] = Root}
        IN /\ roots = (IF StartsWithSlash(p) THEN {1} ELSE {})
                          \cup (IF EndsWithSlash(p) THEN {Len(segs)} ELSE {})
           /\ (StartsWithSlash(p) /\ EndsWithSlash(p)) => Len(segs) >= 2
           /\ Cardinality(roots) <= 2
           /\ (p = Root) => segs = <<Root>>
           /\ (OnlySlashes(p) /\ Len(p) >= 2) => segs = <<Root, Root>>

C6_Witness ==
    /\ JustSplit
    /\ Res.path = <<"/", "/", "/">>
    /\ Returned = <<Root, Root>>

\* the segments joined: a '/' between two adjacent segments that are both not
\* the root marker, nothing next to a root marker
RECURSIVE Join(_)
Join(segs) ==
    IF segs = <<>> THEN <<>>
    ELSE IF Len(segs) = 1 THEN segs[1]
    ELSE segs[1]
            \o (IF segs[1] # Root /\ segs[2] # Root THEN <<"/">> ELSE <<>>)
            \o Join(Tail(segs))

\* p with every run of consecutive '/' replaced by a single '/'
RECURSIVE Canonical(_)
Canonical(p) ==
    IF Len(p) < 2 THEN p
    ELSE IF p[1] = "/" /\ p[2] = "/" THEN Canonical(Tail(p))
    ELSE <<p[1]>> \o Canonical(Tail(p))

\* C7 as stated: for every path the joined segments equal the canonicalized path.
C7_RoundTripAll == JustSplit => Join(Returned) = Canonical(Res.path)

\* C7, amended: the joined segments equal the canonicalized path, except for a
\* path made only of two or more '/', where they are "//".
C7_RoundTrip ==
    JustSplit =>
        Join(Returned) = IF OnlySlashes(Res.path) /\ Len(Res.path) >= 2
                         THEN <<"/", "/">>
                         ELSE Canonical(Res.path)

C7_Witness ==
    /\ JustSplit
    /\ Res.path = <<"a", "/", "/", "b">>
    /\ Join(Returned) = <<"a", "/", "b">>

\* the interior separator runs of p: maximal runs of '/' between two non-'/'
InteriorRuns(p) ==
    {r \in (2..Len(p) - 1) \X (2..Len(p) - 1) :
        /\ r[1] <= r[2]
        /\ \A k \in r[1]..r[2] : p[k] = "/"
        /\ p[r[1] - 1] # "/"
        /\ p[r[2] + 1] # "/"}

\* p with the run r made k long
Resize(p, r, k) ==
    SubSeq(p, 1, r[1] - 1) \o [i \in 1..k |-> "/"] \o SubSeq(p, r[2] + 1, Len(p))

\* C8: making an interior run of '/' any length >= 1 does not change the
\* segments, and no segment strictly inside the result is empty or "/".
C8_SeparatorCollapse ==
    JustSplit =>
        /\ \A r \in InteriorRuns(Res.path) : \A k \in 1..MaxRun :
              SplitText(Resize(Res.path, r, k)) = Returned
        /\ InteriorRuns(Res.path) # {} =>
              \A i \in 2..Len(Returned) - 1 : Returned[i] # <<>> /\ Returned[i] # Root

C8_Witness ==
    /\ JustSplit
    /\ Res.path = <<"a", "/", "/", "b">>
    /\ Returned = <<<<"a">>, <<"b">>>>

\* C9: from the return of a split of a non-empty path until its release every
\* returned pointer is valid, points into storage the result owns and holds the
\* segment's text; after the release that storage is not live; results of
\* different calls share no storage.
C9_Ownership ==
    /\ ~ub
    /\ \A s \in Slot :
          /\ (slots[s].state = "held" /\ slots[s].path # <<>>) =>
                /\ Live(heap, slots[s].components)
                /\ \A i \in 1..slots[s].count :
                      LET ptr == heap[slots[s].components].elems[i]
                      IN /\ ValidPtr(heap, ptr)
                         /\ ptr.vec \in slots[s].owned
                         /\ Deref(heap, ptr) = ExpectedSegments(slots[s].path)[i]
          /\ slots[s].state = "released" => \A a \in slots[s].owned : ~Live(heap, a)
          /\ \A x \in Slot \ {s} : slots[s].owned \cap slots[x].owned = {}

\* C10: in the scanning loop curPos never decreases, never exceeds endPos and
\* strictly increases on every iteration that does not exit the loop, which
\* therefore ends after at most endPos iterations; no character at an index
\* >= endPos becomes part of a segment; the call returns.
LoopStepOK ==
    (pc = "loop" /\ curPos < endPos) =>
        /\ curPos' > curPos
        /\ curPos' <= endPos
        /\ curEnd' <= endPos
        /\ iters' <= endPos
        /\ endPos' = endPos

C10_Terminates == [][LoopStepOK]_vars /\ (pc # "idle" ~> pc = "idle")

C10_Witness ==
    /\ pc = "loop"
    /\ iters = 2
    /\ curPos < endPos

====
